---------------------------- MODULE Spec2Model ----------------------------
(***************************************************************************)
(* A model of src/bot.py: a Telegram bot that converts uploaded PDF files  *)
(* to DOCX.  The state machine covers                                      *)
(*   - main(): the health-server thread and the polling application,       *)
(*   - the application's update queue and its dispatch of handle_pdf,      *)
(*   - handle_pdf(), one step per awaited call,                            *)
(*   - convert_pdf_to_docx(), run on the default executor's worker pool,   *)
(*   - error_handler(), the application-level error callback.              *)
(* Strings are sequences of one-character strings, so that lower(),        *)
(* endswith() and replace() are computed as Python computes them.          *)
(***************************************************************************)
EXTENDS Integers, Sequences, FiniteSets, TLC

(***************************************************************************)
(* Bounds of the model.                                                    *)
(***************************************************************************)
\* number of document updates that arrive during a run
NumReqs == 2
\* worker threads of the default executor used by run_in_executor(None, ...)
PoolSize == 2

Reqs == 1..NumReqs

(***************************************************************************)
(* Strings.                                                                *)
(***************************************************************************)
\* update.message.document.file_name when the upload carries no name
None == <<"None">>

dot_pdf  == <<".", "p", "d", "f">>
dot_PDF  == <<".", "P", "D", "F">>
dot_docx == <<".", "d", "o", "c", "x">>

\* the file names an upload may carry:
\* 'r.pdf', 'R.PDF', 'R.Pdf', 'a.pdf.b.pdf', 'a.txt' and no name
name_r_pdf == <<"r">> \o dot_pdf
name_a_txt == <<"a", ".", "t", "x", "t">>
FileNames ==
    { name_r_pdf,
      <<"R">> \o dot_PDF,
      <<"R">> \o <<".", "P", "d", "f">>,
      <<"a">> \o dot_pdf \o <<".", "b">> \o dot_pdf,
      name_a_txt,
      None }

\* 19 * 1024 * 1024, the limit handle_pdf compares file_size with
MAX_FILE_SIZE == 19 * 1024 * 1024

\* the declared sizes an upload may carry: 2 MiB, the limit, one byte more
FileSizes == { 2 * 1024 * 1024, MAX_FILE_SIZE, MAX_FILE_SIZE + 1 }

\* the MIME type filters.Document.PDF matches, and two it does not match
MIME_PDF   == "application/pdf"
MIME_TEXT  == "text/plain"
MIME_OCTET == "application/octet-stream"

\* the uploads that arrive.  With the MIME type of a PDF: every name with a
\* size of 2 MiB, and a PDF name and a non-PDF name with every size.  With
\* another MIME type: a text file and a file named 'r.pdf'.
Uploads ==
    { [file_name |-> n, file_size |-> 2 * 1024 * 1024, mime_type |-> MIME_PDF] :
         n \in FileNames }
      \cup { [file_name |-> n, file_size |-> z, mime_type |-> MIME_PDF] :
                n \in {name_r_pdf, name_a_txt}, z \in FileSizes }
      \cup { [file_name |-> name_a_txt, file_size |-> 2 * 1024 * 1024,
               mime_type |-> MIME_TEXT],
             [file_name |-> name_r_pdf, file_size |-> 2 * 1024 * 1024,
               mime_type |-> MIME_OCTET] }

\* str.lower() on one character
LowerChar(c) ==
    CASE c = "P" -> "p"
      [] c = "D" -> "d"
      [] c = "F" -> "f"
      [] c = "R" -> "r"
      [] OTHER   -> c

\* str.lower()
lower(s) == [i \in 1..Len(s) |-> LowerChar(s[i])]

\* str.endswith(suffix)
endswith(s, suffix) ==
    /\ Len(s) >= Len(suffix)
    /\ SubSeq(s, Len(s) - Len(suffix) + 1, Len(s)) = suffix

\* str.replace(old, new): every non-overlapping occurrence, leftmost first
RECURSIVE replace(_, _, _)
replace(s, old, new) ==
    IF Len(s) < Len(old) THEN s
    ELSE IF SubSeq(s, 1, Len(old)) = old
         THEN new \o replace(SubSeq(s, Len(old) + 1, Len(s)), old, new)
         ELSE <<Head(s)>> \o replace(Tail(s), old, new)


(***************************************************************************)
(* Message texts (the leading emoji of each text is left out).             *)
(***************************************************************************)
MSG_WRONG_FORMAT == "Please send a PDF file!"
MSG_TOO_LARGE    == "File is too large! Please send a PDF under 20MB."
MSG_PROCESSING   == "Processing your PDF file..."
MSG_CONVERTING   == "Converting PDF to DOCX..."
MSG_COMPLETE     == "Conversion complete! Sending DOCX file..."
MSG_ERROR        == "Error converting PDF"
MSG_HANDLER      == "An error occurred. Please try again."
MSG_CAPTION      == "Converted"
BODY_ALIVE       == "Bot is alive!"

\* the paths a liveness check may ask for
HealthPaths == { "/", "/health" }

(***************************************************************************)
(* State.                                                                  *)
(***************************************************************************)
VARIABLES
    main_pc,        \* position of main(): "start", "health_started", "polling"
    health_state,   \* the health thread: "down", "starting", "serving"
    health_resp,    \* the last response HealthHandler wrote
    pc,             \* pc[r]: position of update r: "none", "queued", a position in
                    \*        handle_pdf, the catch-all or error_handler, "done",
                    \*        "retired"
    doc,            \* doc[r]: update.message.document (file_name, file_size,
                    \*         mime_type) of the update that was taken up
    file,           \* file[r]: handle_pdf's local `file` is bound
    processing_msg, \* processing_msg[r]: id of the status message, 0 if unbound
    pdf_bytes,      \* pdf_bytes[r]: the content was downloaded
    docx_bytes,     \* docx_bytes[r]: the conversion result was received
    chat,           \* chat[r]: the messages the user sees as replies to update r
    escaped,        \* escaped[r]: an exception propagated out of the handler
    exc,            \* exc[r]: the call of the handler that raised, or "none"
    wpc,            \* wpc[r]: position of convert_pdf_to_docx run for update r
    pdf_path,       \* pdf_path[r]: local of convert_pdf_to_docx, <<>> if unbound
    docx_path,      \* docx_path[r]: local of convert_pdf_to_docx, <<>> if unbound
    wexc,           \* wexc[r]: an exception is propagating in convert_pdf_to_docx
    cv,             \* cv[r]: the Converter handle: "none", "open", "closed"
    fs,             \* the temp directory: records [path, owner] of existing files
    made,           \* made[r]: number of scratch files created for update r
    unlinks,        \* unlinks[r]: number of os.unlink calls made for update r
    tempdir         \* tempfile.gettempdir()

health_vars  == <<health_state, health_resp>>
handler_vars == <<pc, doc, file, processing_msg, pdf_bytes, docx_bytes, chat,
                  escaped, exc>>
worker_vars  == <<wpc, pdf_path, docx_path, wexc, cv, fs, made, unlinks>>
vars == <<main_pc, health_vars, handler_vars, worker_vars, tempdir>>

\* the directories tempfile may use
TempDirs == { <<"/", "t">>, <<"/", "d">> \o dot_pdf }

\* the random parts tempfile may put into a name
RandNames == { "x", "y" }

NoResp == [path |-> "", status |-> 0, body |-> ""]

Init ==
    /\ main_pc = "start"
    /\ health_state = "down"
    /\ health_resp = NoResp
    /\ pc = [r \in Reqs |-> "none"]
    /\ doc = [r \in Reqs |-> [file_name |-> None, file_size |-> 0, mime_type |-> ""]]
    /\ file = [r \in Reqs |-> FALSE]
    /\ processing_msg = [r \in Reqs |-> 0]
    /\ pdf_bytes = [r \in Reqs |-> FALSE]
    /\ docx_bytes = [r \in Reqs |-> FALSE]
    /\ chat = [r \in Reqs |-> <<>>]
    /\ escaped = [r \in Reqs |-> FALSE]
    /\ exc = [r \in Reqs |-> "none"]
    /\ wpc = [r \in Reqs |-> "idle"]
    /\ pdf_path = [r \in Reqs |-> <<>>]
    /\ docx_path = [r \in Reqs |-> <<>>]
    /\ wexc = [r \in Reqs |-> FALSE]
    /\ cv = [r \in Reqs |-> "none"]
    /\ fs = {}
    /\ made = [r \in Reqs |-> 0]
    /\ unlinks = [r \in Reqs |-> 0]
    /\ tempdir \in TempDirs

(***************************************************************************)
(* main()                                                                  *)
(***************************************************************************)
\* health_thread.start()
StartHealthThread ==
    /\ main_pc = "start"
    /\ main_pc' = "health_started"
    /\ health_state' = "starting"
    /\ UNCHANGED <<health_resp, handler_vars, worker_vars, tempdir>>

\* application.run_polling(...)
RunPolling ==
    /\ main_pc = "health_started"
    /\ main_pc' = "polling"
    /\ UNCHANGED <<health_vars, handler_vars, worker_vars, tempdir>>

\* run_health_server(): HTTPServer(...) is bound, serve_forever() is entered
RunHealthServer ==
    /\ health_state = "starting"
    /\ health_state' = "serving"
    /\ UNCHANGED <<main_pc, health_resp, handler_vars, worker_vars, tempdir>>

\* a liveness check that is answered only while no handler is running
DoGET_on_event_loop(path) ==
    /\ health_state = "serving"
    /\ \A q \in DOMAIN pc : pc[q] \in {"none", "queued", "done", "retired"}
    /\ health_resp' = [path |-> path, status |-> 200, body |-> BODY_ALIVE]
    /\ UNCHANGED <<main_pc, health_state, handler_vars, worker_vars, tempdir>>

\* HealthHandler.do_GET for a request of any path
DoGET(path) ==
    /\ health_state = "serving"
    /\ health_resp' = [path |-> path, status |-> 200, body |-> BODY_ALIVE]
    /\ UNCHANGED <<main_pc, health_state, handler_vars, worker_vars, tempdir>>

(***************************************************************************)
(* The chat: what the user sees as replies to one upload.                  *)
(***************************************************************************)
TextMsg(id, text) == [id |-> id, kind |-> "text", text |-> text, name |-> <<>>]
DocMsg(id, caption, name) == [id |-> id, kind |-> "document", text |-> caption, name |-> name]

\* the id the transport gives the next message of chat c
NextId(c) == Len(c) + 1

\* an edit that sends the text as a further message
EditText_appending(c, id, text) == Append(c, TextMsg(NextId(c), text))

\* Message.edit_text(text) on message id
EditText(c, id, text) ==
    [i \in 1..Len(c) |-> IF c[i].id = id THEN [c[i] EXCEPT !.text = text] ELSE c[i]]

\* Message.delete() on message id
DeleteMsg(c, id) == SelectSeq(c, LAMBDA m : m.id # id)

(***************************************************************************)
(* The application: Application.builder().token(BOT_TOKEN).build() is      *)
(* built without concurrent_updates, and the handlers are registered       *)
(* without block=False, so the update fetcher awaits each handler before   *)
(* it takes the next update from the queue.                                *)
(***************************************************************************)
\* no handler coroutine is running
HandlersIdle == \A q \in Reqs : pc[q] \in {"none", "queued", "done", "retired"}

\* the record of an update that has no document yet
NoDoc == [file_name |-> None, file_size |-> 0, mime_type |-> ""]

\* f with the entries of the updates in old set back to v
Drop(f, old, v) == [q \in Reqs |-> IF q \in old THEN v ELSE f[q]]

\* the polling updater puts a document update into the update queue.  The
\* program reads nothing of an update before it takes it from the queue: the
\* document the update carries is drawn when it is taken (Dispatch).
Receive(r) ==
    /\ main_pc = "polling"
    /\ pc[r] = "none"
    /\ \A q \in Reqs : q < r => pc[q] # "none"
    /\ pc' = [pc EXCEPT ![r] = "queued"]
    /\ UNCHANGED <<main_pc, health_vars, doc, file, processing_msg, pdf_bytes,
                   docx_bytes, chat, escaped, exc, worker_vars, tempdir>>

\* the handlers in which the catch-all is registered before handle_pdf
Handlers_catch_all_first ==
    << [filter |-> "Command", callback |-> "start"],
       [filter |-> "Command", callback |-> "help_command"],
       [filter |-> "Document.ALL", callback |-> "catch_all"],
       [filter |-> "Document.PDF", callback |-> "handle_pdf"] >>

\* application.add_handler(...): the handlers of main(), in the order of their
\* registration; all are in the default group
Handlers ==
    << [filter |-> "Command", callback |-> "start"],
       [filter |-> "Command", callback |-> "help_command"],
       [filter |-> "Document.PDF", callback |-> "handle_pdf"],
       [filter |-> "Document.ALL", callback |-> "catch_all"] >>

\* the filter of a handler accepts a message that carries document d: a command
\* handler wants a text that begins with '/', filters.Document.PDF the MIME
\* type of a PDF, filters.Document.ALL any document
Matches(filter, d) ==
    CASE filter = "Document.PDF" -> d.mime_type = MIME_PDF
      [] filter = "Document.ALL" -> TRUE
      [] OTHER -> FALSE

\* the callback the application calls for a message with document d: within a
\* group the first handler whose filter matches, and no other
Selected(d) ==
    LET idx == { i \in 1..Len(Handlers) : Matches(Handlers[i].filter, d) } IN
    IF idx = {} THEN "none"
    ELSE Handlers[CHOOSE i \in idx : \A j \in idx : i <= j].callback

\* the position at which callback cb begins
Entry(cb) ==
    CASE cb = "handle_pdf" -> "get_file"
      [] cb = "catch_all" -> "catch_all"
      [] OTHER -> "done"

\* the update fetcher takes the oldest update, a message with any document
\* of Uploads, and calls the handler selected for it.  The updates handled
\* before are dropped by the application: their locals and the record of
\* their replies are set back ("retired"); the temp directory keeps whatever
\* files they left.
Dispatch(r) ==
    /\ pc[r] = "queued"
    /\ \A q \in Reqs : q < r => pc[q] \notin {"none", "queued"}
    /\ HandlersIdle
    /\ \E d \in Uploads :
       LET old == { q \in Reqs : pc[q] = "done" } IN
        /\ pc' = [q \in Reqs |-> IF q = r THEN Entry(Selected(d))
                                 ELSE IF q \in old THEN "retired" ELSE pc[q]]
        /\ doc' = [Drop(doc, old, NoDoc) EXCEPT ![r] = d]
        /\ file' = Drop(file, old, FALSE)
        /\ processing_msg' = Drop(processing_msg, old, 0)
        /\ pdf_bytes' = Drop(pdf_bytes, old, FALSE)
        /\ docx_bytes' = Drop(docx_bytes, old, FALSE)
        /\ chat' = Drop(chat, old, <<>>)
        /\ escaped' = Drop(escaped, old, FALSE)
        /\ exc' = Drop(exc, old, "none")
        /\ wpc' = Drop(wpc, old, "idle")
        /\ cv' = Drop(cv, old, "none")
        /\ made' = Drop(made, old, 0)
        /\ unlinks' = Drop(unlinks, old, 0)
    /\ UNCHANGED <<main_pc, health_vars, pdf_path, docx_path, wexc, fs, tempdir>>

(***************************************************************************)
(* handle_pdf(): one action per awaited call; each call returns or raises. *)
(***************************************************************************)
\* the handler moves to position p and changes nothing else
Goto(r, p) ==
    /\ pc' = [pc EXCEPT ![r] = p]
    /\ UNCHANGED <<main_pc, health_vars, doc, file, processing_msg, pdf_bytes,
                   docx_bytes, chat, escaped, exc, worker_vars, tempdir>>

\* the call named e raises: control goes to the except clause of handle_pdf
Raise(r, e) ==
    /\ pc' = [pc EXCEPT ![r] = "except"]
    /\ exc' = [exc EXCEPT ![r] = e]
    /\ UNCHANGED <<main_pc, health_vars, doc, file, processing_msg, pdf_bytes,
                   docx_bytes, chat, escaped, worker_vars, tempdir>>

\* a reply that goes to the conversation of every update
Reply_to_all(r, m, p) ==
    /\ chat' = [q \in Reqs |-> Append(chat[q], m)]
    /\ pc' = [pc EXCEPT ![r] = p]

\* the handler sends message m and moves to position p
Reply(r, m, p) ==
    /\ chat' = [chat EXCEPT ![r] = Append(@, m)]
    /\ pc' = [pc EXCEPT ![r] = p]

\* update.message.document.file_name.lower().endswith('.pdf')
is_pdf_name(file_name) == endswith(lower(file_name), dot_pdf)

\* the size check with >= in place of >
too_large_ge(file_size) == file_size >= MAX_FILE_SIZE

\* update.message.document.file_size > 19 * 1024 * 1024
too_large(file_size) == file_size > MAX_FILE_SIZE

\* docx_io.name
output_name(file_name) ==
    replace(replace(file_name, dot_pdf, dot_docx), dot_PDF, dot_docx)

\* file = await update.message.document.get_file()
GetFile(r) ==
    /\ pc[r] = "get_file"
    /\ \/ /\ file' = [file EXCEPT ![r] = TRUE]
          /\ pc' = [pc EXCEPT ![r] = "check_format"]
          /\ UNCHANGED <<main_pc, health_vars, doc, processing_msg, pdf_bytes,
                         docx_bytes, chat, escaped, exc, worker_vars, tempdir>>
       \/ Raise(r, "get_file")

\* if not file_name.lower().endswith('.pdf'): None has no lower()
CheckFormat(r) ==
    /\ pc[r] = "check_format"
    /\ IF doc[r].file_name = None
       THEN Raise(r, "lower")
       ELSE IF ~is_pdf_name(doc[r].file_name)
            THEN Goto(r, "reply_wrong_format")
            ELSE Goto(r, "check_size")

\* await update.message.reply_text("Please send a PDF file!"); return
ReplyWrongFormat(r) ==
    /\ pc[r] = "reply_wrong_format"
    /\ \/ /\ Reply(r, TextMsg(NextId(chat[r]), MSG_WRONG_FORMAT), "done")
          /\ UNCHANGED <<main_pc, health_vars, doc, file, processing_msg, pdf_bytes,
                         docx_bytes, escaped, exc, worker_vars, tempdir>>
       \/ Raise(r, "reply_text")

\* if file_size > 19 * 1024 * 1024
CheckSize(r) ==
    /\ pc[r] = "check_size"
    /\ IF too_large(doc[r].file_size)
       THEN Goto(r, "reply_too_large")
       ELSE Goto(r, "reply_processing")

\* await update.message.reply_text("File is too large! ..."); return
ReplyTooLarge(r) ==
    /\ pc[r] = "reply_too_large"
    /\ \/ /\ Reply(r, TextMsg(NextId(chat[r]), MSG_TOO_LARGE), "done")
          /\ UNCHANGED <<main_pc, health_vars, doc, file, processing_msg, pdf_bytes,
                         docx_bytes, escaped, exc, worker_vars, tempdir>>
       \/ Raise(r, "reply_text")

\* processing_msg = await update.message.reply_text("Processing your PDF file...")
ReplyProcessing(r) ==
    /\ pc[r] = "reply_processing"
    /\ \/ /\ Reply(r, TextMsg(NextId(chat[r]), MSG_PROCESSING), "download")
          /\ processing_msg' = [processing_msg EXCEPT ![r] = NextId(chat[r])]
          /\ UNCHANGED <<main_pc, health_vars, doc, file, pdf_bytes,
                         docx_bytes, escaped, exc, worker_vars, tempdir>>
       \/ Raise(r, "reply_text")

\* pdf_bytes = await file.download_as_bytearray()
Download(r) ==
    /\ pc[r] = "download"
    /\ \/ /\ pdf_bytes' = [pdf_bytes EXCEPT ![r] = TRUE]
          /\ pc' = [pc EXCEPT ![r] = "edit_converting"]
          /\ UNCHANGED <<main_pc, health_vars, doc, file, processing_msg,
                         docx_bytes, chat, escaped, exc, worker_vars, tempdir>>
       \/ Raise(r, "download_as_bytearray")

\* await processing_msg.edit_text("Converting PDF to DOCX...")
EditConverting(r) ==
    /\ pc[r] = "edit_converting"
    /\ \/ /\ chat' = [chat EXCEPT ![r] = EditText(@, processing_msg[r], MSG_CONVERTING)]
          /\ pc' = [pc EXCEPT ![r] = "run_in_executor"]
          /\ UNCHANGED <<main_pc, health_vars, doc, file, processing_msg, pdf_bytes,
                         docx_bytes, escaped, exc, worker_vars, tempdir>>
       \/ Raise(r, "edit_text")

\* loop.run_in_executor(None, convert_pdf_to_docx, bytes(pdf_bytes)): the job is submitted
RunInExecutor(r) ==
    /\ pc[r] = "run_in_executor"
    /\ wpc[r] = "idle"
    /\ wpc' = [wpc EXCEPT ![r] = "submitted"]
    /\ pc' = [pc EXCEPT ![r] = "await_executor"]
    /\ UNCHANGED <<main_pc, health_vars, doc, file, processing_msg, pdf_bytes,
                   docx_bytes, chat, escaped, exc, pdf_path, docx_path, wexc, cv, fs,
                   made, unlinks, tempdir>>

\* an await that submits the job again when it has raised
AwaitExecutor_retrying(r) ==
    /\ pc[r] = "await_executor"
    /\ \/ /\ wpc[r] = "returned"
          /\ docx_bytes' = [docx_bytes EXCEPT ![r] = TRUE]
          /\ pc' = [pc EXCEPT ![r] = "edit_complete"]
          /\ UNCHANGED <<main_pc, health_vars, doc, file, processing_msg, pdf_bytes,
                         chat, escaped, exc, worker_vars, tempdir>>
       \/ /\ wpc[r] = "raised"
          /\ wpc' = [wpc EXCEPT ![r] = "submitted"]
          /\ UNCHANGED <<main_pc, health_vars, handler_vars, pdf_path, docx_path, wexc,
                         cv, fs, made, unlinks, tempdir>>

\* docx_bytes = await <the future>: the job has returned or raised
AwaitExecutor(r) ==
    /\ pc[r] = "await_executor"
    /\ \/ /\ wpc[r] = "returned"
          /\ docx_bytes' = [docx_bytes EXCEPT ![r] = TRUE]
          /\ pc' = [pc EXCEPT ![r] = "edit_complete"]
          /\ UNCHANGED <<main_pc, health_vars, doc, file, processing_msg, pdf_bytes,
                         chat, escaped, exc, worker_vars, tempdir>>
       \/ /\ wpc[r] = "raised"
          /\ Raise(r, "convert_pdf_to_docx")

\* await processing_msg.edit_text("Conversion complete! Sending DOCX file...")
EditComplete(r) ==
    /\ pc[r] = "edit_complete"
    /\ \/ /\ chat' = [chat EXCEPT ![r] = EditText(@, processing_msg[r], MSG_COMPLETE)]
          /\ pc' = [pc EXCEPT ![r] = "reply_document"]
          /\ UNCHANGED <<main_pc, health_vars, doc, file, processing_msg, pdf_bytes,
                         docx_bytes, escaped, exc, worker_vars, tempdir>>
       \/ Raise(r, "edit_text")

\* docx_io.name = ...; await update.message.reply_document(document=docx_io, caption=...)
ReplyDocument(r) ==
    /\ pc[r] = "reply_document"
    /\ \/ /\ Reply(r, DocMsg(NextId(chat[r]), MSG_CAPTION, output_name(doc[r].file_name)),
                   "delete")
          /\ UNCHANGED <<main_pc, health_vars, doc, file, processing_msg, pdf_bytes,
                         docx_bytes, escaped, exc, worker_vars, tempdir>>
       \/ Raise(r, "reply_document")

\* await processing_msg.delete()
DeleteProcessing(r) ==
    /\ pc[r] = "delete"
    /\ \/ /\ chat' = [chat EXCEPT ![r] = DeleteMsg(@, processing_msg[r])]
          /\ pc' = [pc EXCEPT ![r] = "done"]
          /\ UNCHANGED <<main_pc, health_vars, doc, file, processing_msg, pdf_bytes,
                         docx_bytes, escaped, exc, worker_vars, tempdir>>
       \/ Raise(r, "delete")

\* an except clause that starts the handling of the update again
Except_retrying(r) ==
    /\ pc[r] = "except"
    /\ Goto(r, "get_file")

\* except Exception as e: logger.error(...); await update.message.reply_text("Error converting PDF: ...")
\* an exception this reply raises leaves handle_pdf
Except(r) ==
    /\ pc[r] = "except"
    /\ \/ /\ Reply(r, TextMsg(NextId(chat[r]), MSG_ERROR), "done")
          /\ UNCHANGED <<main_pc, health_vars, doc, file, processing_msg, pdf_bytes,
                         docx_bytes, escaped, exc, worker_vars, tempdir>>
       \/ /\ escaped' = [escaped EXCEPT ![r] = TRUE]
          /\ pc' = [pc EXCEPT ![r] = "error_handler"]
          /\ UNCHANGED <<main_pc, health_vars, doc, file, processing_msg, pdf_bytes,
                         docx_bytes, chat, exc, worker_vars, tempdir>>

(***************************************************************************)
(* The catch-all: lambda u, c: u.message.reply_text("Please send a PDF     *)
(* file!").  The application awaits the reply; an exception it raises      *)
(* goes to error_handler.                                                  *)
(***************************************************************************)
CatchAll(r) ==
    /\ pc[r] = "catch_all"
    /\ \/ /\ Reply(r, TextMsg(NextId(chat[r]), MSG_WRONG_FORMAT), "done")
          /\ UNCHANGED <<main_pc, health_vars, doc, file, processing_msg, pdf_bytes,
                         docx_bytes, escaped, exc, worker_vars, tempdir>>
       \/ /\ escaped' = [escaped EXCEPT ![r] = TRUE]
          /\ exc' = [exc EXCEPT ![r] = "reply_text"]
          /\ pc' = [pc EXCEPT ![r] = "error_handler"]
          /\ UNCHANGED <<main_pc, health_vars, doc, file, processing_msg, pdf_bytes,
                         docx_bytes, chat, worker_vars, tempdir>>

(***************************************************************************)
(* error_handler(): called by the application for an exception that left   *)
(* a handler; an exception it raises itself is logged by the application.  *)
(***************************************************************************)
\* if update and update.message: await update.message.reply_text("An error occurred. ...")
ErrorHandler(r) ==
    /\ pc[r] = "error_handler"
    /\ \/ /\ Reply(r, TextMsg(NextId(chat[r]), MSG_HANDLER), "done")
          /\ UNCHANGED <<main_pc, health_vars, doc, file, processing_msg, pdf_bytes,
                         docx_bytes, escaped, exc, worker_vars, tempdir>>
       \/ Goto(r, "done")

(***************************************************************************)
(* convert_pdf_to_docx(), run by a worker thread of the default executor.  *)
(***************************************************************************)
\* the paths that exist in the temp directory
Paths == { f.path : f \in fs }

\* the name NamedTemporaryFile(suffix='.pdf') builds from a random part
TempName(n) == tempdir \o <<"/", "t", "m", "p", n>> \o dot_pdf

\* the worker threads that are running a job
Busy == { q \in Reqs : wpc[q] \notin {"idle", "submitted", "returned", "raised"} }

\* an executor that refuses the job
WorkerStart_dropping(r) ==
    /\ wpc[r] = "submitted"
    /\ wpc' = [wpc EXCEPT ![r] = "raised"]
    /\ UNCHANGED <<main_pc, health_vars, handler_vars, pdf_path, docx_path, wexc,
                   cv, fs, made, unlinks, tempdir>>

\* a free worker thread takes the job from the executor's queue
WorkerStart(r) ==
    /\ wpc[r] = "submitted"
    /\ Cardinality(Busy) < PoolSize
    /\ wpc' = [wpc EXCEPT ![r] = "tempfile"]
    /\ UNCHANGED <<main_pc, health_vars, handler_vars, pdf_path, docx_path, wexc,
                   cv, fs, made, unlinks, tempdir>>

\* a temp file whose name is taken without a look at the names in use
NamedTemporaryFile_reusing(r) ==
    /\ wpc[r] = "tempfile"
    /\ \/ /\ wpc' = [wpc EXCEPT ![r] = "raised"]
          /\ UNCHANGED <<pdf_path, docx_path, fs, made>>
       \/ \E n \in RandNames :
            /\ fs' = fs \cup {[path |-> TempName(n), owner |-> r]}
            /\ made' = [made EXCEPT ![r] = @ + 1]
            /\ wpc' = [wpc EXCEPT ![r] = "raised"]
            /\ UNCHANGED <<pdf_path, docx_path>>
       \/ \E n \in RandNames :
            /\ fs' = fs \cup {[path |-> TempName(n), owner |-> r]}
            /\ made' = [made EXCEPT ![r] = @ + 1]
            /\ pdf_path' = [pdf_path EXCEPT ![r] = TempName(n)]
            /\ docx_path' = [docx_path EXCEPT ![r] = replace(TempName(n), dot_pdf, dot_docx)]
            /\ wpc' = [wpc EXCEPT ![r] = "converter"]
    /\ UNCHANGED <<main_pc, health_vars, handler_vars, wexc, cv, unlinks, tempdir>>

\* with tempfile.NamedTemporaryFile(suffix='.pdf', delete=False) as pdf_temp:
\*     pdf_temp.write(pdf_bytes); pdf_path = pdf_temp.name
\* docx_path = pdf_path.replace('.pdf', '.docx')
\* This part is outside the try block: an exception leaves the function at once.
NamedTemporaryFile(r) ==
    /\ wpc[r] = "tempfile"
    /\ \/ \* the file cannot be created
          /\ wpc' = [wpc EXCEPT ![r] = "raised"]
          /\ UNCHANGED <<pdf_path, docx_path, fs, made>>
       \/ \* the file is created (delete=False) and write() raises
          \E n \in RandNames :
            /\ TempName(n) \notin Paths
            /\ fs' = fs \cup {[path |-> TempName(n), owner |-> r]}
            /\ made' = [made EXCEPT ![r] = @ + 1]
            /\ wpc' = [wpc EXCEPT ![r] = "raised"]
            /\ UNCHANGED <<pdf_path, docx_path>>
       \/ \* the file is created and written
          \E n \in RandNames :
            /\ TempName(n) \notin Paths
            /\ fs' = fs \cup {[path |-> TempName(n), owner |-> r]}
            /\ made' = [made EXCEPT ![r] = @ + 1]
            /\ pdf_path' = [pdf_path EXCEPT ![r] = TempName(n)]
            /\ docx_path' = [docx_path EXCEPT ![r] = replace(TempName(n), dot_pdf, dot_docx)]
            /\ wpc' = [wpc EXCEPT ![r] = "converter"]
    /\ UNCHANGED <<main_pc, health_vars, handler_vars, wexc, cv, unlinks, tempdir>>

\* cv = Converter(pdf_path)
NewConverter(r) ==
    /\ wpc[r] = "converter"
    /\ \/ /\ cv' = [cv EXCEPT ![r] = "open"]
          /\ wpc' = [wpc EXCEPT ![r] = "convert"]
          /\ UNCHANGED wexc
       \/ /\ wexc' = [wexc EXCEPT ![r] = TRUE]
          /\ wpc' = [wpc EXCEPT ![r] = "finally"]
          /\ UNCHANGED cv
    /\ UNCHANGED <<main_pc, health_vars, handler_vars, pdf_path, docx_path, fs,
                   made, unlinks, tempdir>>

\* the output file of update r is written at its docx_path
WriteOutput(r) ==
    /\ fs' = fs \cup {[path |-> docx_path[r], owner |-> r]}
    /\ made' = [made EXCEPT ![r] = IF docx_path[r] \in Paths THEN @ ELSE @ + 1]

\* cv.convert(docx_path, start=0, end=None): the engine writes the output or raises,
\* before or after it has begun to write; it raises before when the directory
\* of docx_path does not exist
Convert(r) ==
    /\ wpc[r] = "convert"
    /\ \/ /\ WriteOutput(r)
          /\ wpc' = [wpc EXCEPT ![r] = "close"]
          /\ UNCHANGED wexc
       \/ /\ wexc' = [wexc EXCEPT ![r] = TRUE]
          /\ wpc' = [wpc EXCEPT ![r] = "finally"]
          /\ UNCHANGED <<fs, made>>
       \/ /\ WriteOutput(r)
          /\ wexc' = [wexc EXCEPT ![r] = TRUE]
          /\ wpc' = [wpc EXCEPT ![r] = "finally"]
    /\ UNCHANGED <<main_pc, health_vars, handler_vars, pdf_path, docx_path, cv,
                   unlinks, tempdir>>

\* cv.close()
Close(r) ==
    /\ wpc[r] = "close"
    /\ cv' = [cv EXCEPT ![r] = "closed"]
    /\ wpc' = [wpc EXCEPT ![r] = "read"]
    /\ UNCHANGED <<main_pc, health_vars, handler_vars, pdf_path, docx_path, wexc,
                   fs, made, unlinks, tempdir>>

\* with open(docx_path, 'rb') as docx_file: docx_bytes = docx_file.read()
ReadOutput(r) ==
    /\ wpc[r] = "read"
    /\ \/ /\ docx_path[r] \in Paths
          /\ UNCHANGED wexc
       \/ wexc' = [wexc EXCEPT ![r] = TRUE]
    /\ wpc' = [wpc EXCEPT ![r] = "finally"]
    /\ UNCHANGED <<main_pc, health_vars, handler_vars, pdf_path, docx_path, cv,
                   fs, made, unlinks, tempdir>>

\* a cleanup that removes the input file and leaves the output file
Finally_keeping_output(r) ==
    /\ wpc[r] = "finally"
    /\ fs' = { f \in fs : f.path # pdf_path[r] }
    /\ unlinks' = [unlinks EXCEPT ![r] = @ + Cardinality({pdf_path[r]} \cap Paths)]
    /\ wpc' = [wpc EXCEPT ![r] = IF wexc[r] THEN "raised" ELSE "returned"]
    /\ wexc' = [wexc EXCEPT ![r] = FALSE]
    /\ pdf_path' = [pdf_path EXCEPT ![r] = <<>>]
    /\ docx_path' = [docx_path EXCEPT ![r] = <<>>]
    /\ UNCHANGED <<main_pc, health_vars, handler_vars, cv, made, tempdir>>

\* finally: if os.path.exists(pdf_path): os.unlink(pdf_path)
\*          if os.path.exists(docx_path): os.unlink(docx_path)
\* return docx_bytes, or the pending exception goes on
Finally(r) ==
    /\ wpc[r] = "finally"
    /\ fs' = { f \in fs : f.path \notin {pdf_path[r], docx_path[r]} }
    /\ unlinks' = [unlinks EXCEPT ![r] =
                      @ + Cardinality({pdf_path[r], docx_path[r]} \cap Paths)]
    /\ wpc' = [wpc EXCEPT ![r] = IF wexc[r] THEN "raised" ELSE "returned"]
    /\ wexc' = [wexc EXCEPT ![r] = FALSE]
    /\ pdf_path' = [pdf_path EXCEPT ![r] = <<>>]
    /\ docx_path' = [docx_path EXCEPT ![r] = <<>>]
    /\ UNCHANGED <<main_pc, health_vars, handler_vars, cv, made, tempdir>>

(***************************************************************************)
(* The system.                                                             *)
(***************************************************************************)
Next ==
    \/ StartHealthThread
    \/ RunPolling
    \/ RunHealthServer
    \/ \E path \in HealthPaths : DoGET(path)
    \/ \E r \in Reqs : Receive(r)
    \/ \E r \in Reqs : Dispatch(r)
    \/ \E r \in Reqs : GetFile(r)
    \/ \E r \in Reqs : CheckFormat(r)
    \/ \E r \in Reqs : ReplyWrongFormat(r)
    \/ \E r \in Reqs : CheckSize(r)
    \/ \E r \in Reqs : ReplyTooLarge(r)
    \/ \E r \in Reqs : ReplyProcessing(r)
    \/ \E r \in Reqs : Download(r)
    \/ \E r \in Reqs : EditConverting(r)
    \/ \E r \in Reqs : RunInExecutor(r)
    \/ \E r \in Reqs : AwaitExecutor(r)
    \/ \E r \in Reqs : EditComplete(r)
    \/ \E r \in Reqs : ReplyDocument(r)
    \/ \E r \in Reqs : DeleteProcessing(r)
    \/ \E r \in Reqs : Except(r)
    \/ \E r \in Reqs : CatchAll(r)
    \/ \E r \in Reqs : ErrorHandler(r)
    \/ \E r \in Reqs : WorkerStart(r)
    \/ \E r \in Reqs : NamedTemporaryFile(r)
    \/ \E r \in Reqs : NewConverter(r)
    \/ \E r \in Reqs : Convert(r)
    \/ \E r \in Reqs : Close(r)
    \/ \E r \in Reqs : ReadOutput(r)
    \/ \E r \in Reqs : Finally(r)

Spec == Init /\ [][Next]_vars

\* a step of the event loop: the application takes an update or a handler
\* coroutine goes on from its await
HandlerStep ==
    \E r \in Reqs :
        \/ Dispatch(r) \/ GetFile(r) \/ CheckFormat(r) \/ ReplyWrongFormat(r)
        \/ CheckSize(r) \/ ReplyTooLarge(r) \/ ReplyProcessing(r) \/ Download(r)
        \/ EditConverting(r) \/ RunInExecutor(r) \/ AwaitExecutor(r)
        \/ EditComplete(r) \/ ReplyDocument(r) \/ DeleteProcessing(r)
        \/ Except(r) \/ CatchAll(r) \/ ErrorHandler(r)

\* a step of a worker thread of the executor
WorkerStep ==
    \E r \in Reqs :
        \/ WorkerStart(r) \/ NamedTemporaryFile(r) \/ NewConverter(r) \/ Convert(r)
        \/ Close(r) \/ ReadOutput(r) \/ Finally(r)

\* the event loop and the worker threads keep running: every awaited call
\* and every call of the engine returns or raises
FairSpec == Spec /\ WF_vars(HandlerStep) /\ WF_vars(WorkerStep)

(***************************************************************************)
(* Vocabulary of the properties.                                           *)
(***************************************************************************)
\* update r has reached a terminal state: its handling is over
Done(r) == pc[r] = "done"

\* the number of messages of chat c that satisfy P
Count(c, P(_)) == Len(SelectSeq(c, P))

IsDocument(m) == m.kind = "document"
IsFailure(m) ==
    m.kind = "text" /\ m.text \in {MSG_WRONG_FORMAT, MSG_TOO_LARGE, MSG_ERROR, MSG_HANDLER}
IsStatus(m) ==
    m.kind = "text" /\ m.text \in {MSG_PROCESSING, MSG_CONVERTING, MSG_COMPLETE}

\* the scratch files of update r that exist
ScratchOf(r) == { f \in fs : f.owner = r }

\* name carries the extension '.pdf' in any letter case
HasPdfSuffix(name) ==
    /\ name # None
    /\ Len(name) >= 4
    /\ name[Len(name) - 3] = "."
    /\ name[Len(name) - 2] \in {"p", "P"}
    /\ name[Len(name) - 1] \in {"d", "D"}
    /\ name[Len(name)] \in {"f", "F"}

\* no content was downloaded, no status message sent, no conversion dispatched
\* and no scratch file created for update r
NothingAllocated(r) ==
    /\ ~pdf_bytes[r]
    /\ processing_msg[r] = 0
    /\ wpc[r] = "idle"
    /\ made[r] = 0

(***************************************************************************)
(* C1.  Every scratch file created for a request by convert_pdf_to_docx    *)
(* has been removed exactly once when the request reaches a terminal       *)
(* state, on every exit path.  The code violates it: the temp file is      *)
(* created and written before the try block, so a failing write leaves     *)
(* the function without running the cleanup.                               *)
(***************************************************************************)
C1_ScratchRemovedAtDone ==
    \A r \in Reqs : Done(r) => ScratchOf(r) = {} /\ unlinks[r] = made[r]

(***************************************************************************)
(* C2.  A request whose file name does not end in '.pdf' in any letter     *)
(* case, a request without a file name included, ends with the fixed       *)
(* reply 'Please send a PDF file!' and with nothing downloaded, shown,     *)
(* dispatched or created.  Stated for the requests none of whose           *)
(* transport calls raised.  The code violates it for a missing name:       *)
(* None has no lower().                                                    *)
(***************************************************************************)
C2_WrongFormatRejected ==
    \A r \in Reqs :
        Done(r) /\ ~HasPdfSuffix(doc[r].file_name) /\ exc[r] \in {"none", "lower"}
            => /\ chat[r] = <<TextMsg(1, MSG_WRONG_FORMAT)>>
               /\ NothingAllocated(r)

(***************************************************************************)
(* C3.  A PDF whose declared size is above the maximum is rejected with    *)
(* the too-large reply at once: nothing is downloaded, dispatched or       *)
(* created.  Stated for the requests whose too-large reply itself did not  *)
(* raise.  The code violates it: get_file() is called before the size      *)
(* check, and when it raises the request ends with the error message.      *)
(***************************************************************************)
C3_TooLargeRejected ==
    \A r \in Reqs :
        Done(r) /\ HasPdfSuffix(doc[r].file_name) /\ doc[r].file_size > 19922944
            => /\ chat[r] = <<TextMsg(1, MSG_TOO_LARGE)>> \/ exc[r] = "reply_text"
               /\ NothingAllocated(r)

(***************************************************************************)
(* C4.  The validation of handle_pdf equals the reference validator for    *)
(* every file name and declared size: WrongFormat if the name does not     *)
(* end in '.pdf' in any letter case, otherwise TooLarge if the size is     *)
(* above 19 MiB = 19922944 bytes, otherwise accepted.  The format check    *)
(* comes first and a size of exactly 19 MiB is accepted.                   *)
(***************************************************************************)
Reference(name, size) ==
    IF ~HasPdfSuffix(name) THEN "WrongFormat"
    ELSE IF size > 19922944 THEN "TooLarge"
    ELSE "Accepted"

C4_ValidationMatchesReference ==
    \A r \in Reqs :
        LET ref == Reference(doc[r].file_name, doc[r].file_size) IN
        doc[r].file_name # None =>
            /\ pc[r] = "reply_wrong_format" => ref = "WrongFormat"
            /\ pc[r] = "check_size" => ref # "WrongFormat"
            /\ pc[r] = "reply_too_large" => ref = "TooLarge"
            /\ pc[r] = "reply_processing" => ref = "Accepted"

\* an upload of exactly 19 MiB has passed the validation while another
\* upload waits in the queue
C4_Witness ==
    \E q, r \in Reqs :
        /\ doc[r].file_name = name_r_pdf /\ doc[r].file_size = 19922944
        /\ pc[r] = "reply_processing"
        /\ pc[q] = "queued"

(***************************************************************************)
(* C5.  The delivered file name is the input name with only its trailing   *)
(* '.pdf' (in any letter case) replaced by '.docx'.  The code violates     *)
(* it: it replaces every '.pdf' and every '.PDF' and no other spelling.    *)
(***************************************************************************)
C5_OutputNameReplacesSuffix ==
    \A r \in Reqs : \A i \in 1..Len(chat[r]) :
        IsDocument(chat[r][i]) =>
            chat[r][i].name =
                SubSeq(doc[r].file_name, 1, Len(doc[r].file_name) - 4) \o dot_docx

(***************************************************************************)
(* C6.  A request has one outcome: the user receives the converted         *)
(* document or one failure message, never both and never more than one,    *)
(* whichever transport call fails.  The code violates it: when the         *)
(* deletion of the status message raises after the document was sent,      *)
(* the except clause sends the failure message as well.                    *)
(***************************************************************************)
C6_AtMostOneOutcome ==
    \A r \in Reqs :
        Done(r) => Count(chat[r], IsDocument) + Count(chat[r], IsFailure) <= 1

(***************************************************************************)
(* C7.  No exception leaves handle_pdf for the application-level error     *)
(* handler, whichever step fails, the sending of the failure message       *)
(* included.  The code violates it: the reply in the except clause is not  *)
(* guarded.                                                                *)
(***************************************************************************)
C7_NoErrorEscapes ==
    \A r \in Reqs :
        Selected(doc[r]) = "handle_pdf" => ~escaped[r] /\ pc[r] # "error_handler"

(***************************************************************************)
(* C8.  While the conversion of one request runs on the worker pool, a     *)
(* pending update can be taken up without waiting for it.  The code        *)
(* violates it: the application awaits handle_pdf before it takes the      *)
(* next update.                                                            *)
(***************************************************************************)
C8_PendingUpdateNotBlocked ==
    \A r, q \in Reqs :
        /\ pc[r] = "await_executor"
        /\ r \in Busy
        /\ pc[q] = "queued"
        /\ \A o \in Reqs : o < q => pc[o] \notin {"none", "queued"}
        => ENABLED Dispatch(q)

(***************************************************************************)
(* C9.  The liveness endpoint is started by main() before the polling      *)
(* begins, runs in a thread of its own that shares no state with the       *)
(* requests, and once it serves it answers a GET of any path with 200 and  *)
(* 'Bot is alive!' whatever the handlers and the workers are doing.        *)
(***************************************************************************)
C9_LivenessIndependent ==
    /\ [](main_pc = "polling" => health_state # "down")
    /\ [](health_state = "serving" => \A path \in HealthPaths : ENABLED DoGET(path))
    /\ [](health_resp # NoResp =>
            /\ health_resp.path \in HealthPaths
            /\ health_resp.status = 200
            /\ health_resp.body = "Bot is alive!")
    /\ [][health_state = "serving" => health_state' = "serving"]_vars
    /\ [][health_vars' # health_vars => UNCHANGED <<handler_vars, worker_vars>>]_vars

\* a liveness check of a path other than '/' was answered and the next one can
\* be, while a conversion is running and another upload waits for it
C9_Witness ==
    \E q, r \in Reqs :
        /\ wpc[r] = "convert"
        /\ pc[q] = "queued"
        /\ ENABLED DoGET("/")
        /\ health_resp = [path |-> "/health", status |-> 200, body |-> BODY_ALIVE]

(***************************************************************************)
(* C10.  As claimed: the status events of a request come in the order      *)
(* processing, converting, complete, the request has at most one status    *)
(* message, and every later event, the terminal failure notice included,   *)
(* replaces the displayed status instead of standing next to it.  The      *)
(* last part fails: the failure notice is a message of its own.            *)
(***************************************************************************)
StatusMsgs(r) == SelectSeq(chat[r], IsStatus)
StatusText(r) == IF StatusMsgs(r) = <<>> THEN "none" ELSE StatusMsgs(r)[1].text

StatusOrder ==
    { <<"none", MSG_PROCESSING>>, <<MSG_PROCESSING, MSG_CONVERTING>>,
      <<MSG_CONVERTING, MSG_COMPLETE>>, <<MSG_COMPLETE, "none">> }

InFlight(r) == pc[r] \notin {"none", "queued", "done", "retired"}

C12_ValidationBeforeTransport ==
    \A r \in Reqs :
        /\ pc[r] \in {"check_format", "check_size"} => ~file[r] /\ ~pdf_bytes[r]
        /\ Reference(doc[r].file_name, doc[r].file_size) # "Accepted"
              /\ (InFlight(r) \/ Done(r))
              => ~file[r] /\ ~pdf_bytes[r] /\ exc[r] # "get_file"

(***************************************************************************)
(* C13.  The scratch cleanup precedes the delivery.  From the moment the   *)
(* conversion result is back in the handler, so while the status           *)
(* 'complete' is shown and while the document is handed to the transport,  *)
(* both scratch files of the request were made and both are removed; a     *)
(* request that ends because the 'complete' edit, the delivery or the      *)
(* deletion of the status message failed leaves no scratch file.           *)
(***************************************************************************)
\* the conversion of update r is over and its result is with the handler
Delivering(r) ==
    \/ pc[r] \in {"edit_complete", "reply_document", "delete"}
    \/ StatusText(r) = MSG_COMPLETE
    \/ Count(chat[r], IsDocument) > 0
    \/ docx_bytes[r]

C13_CleanupPrecedesDelivery ==
    \A r \in Reqs :
        Delivering(r) =>
            /\ wpc[r] = "returned"
            /\ ScratchOf(r) = {}
            /\ made[r] = 2 /\ unlinks[r] = 2

\* the delivery of a converted document failed and the request is over
C13_Witness ==
    \E r \in Reqs :
        /\ Done(r) /\ exc[r] = "reply_document"
        /\ StatusText(r) = MSG_COMPLETE
        /\ Count(chat[r], IsDocument) = 0
        /\ made[r] = 2 /\ ScratchOf(r) = {}

(***************************************************************************)
(* C14.  The engine is invoked at most once per request and nothing is     *)
(* retried.  The job of a request moves through convert_pdf_to_docx        *)
(* forwards only, so it constructs the Converter and calls convert at      *)
(* most once, and the content is downloaded at most once.  When the        *)
(* engine fails (Converter, convert or the read-back raises) the job ends  *)
(* with both scratch files removed; the handler goes from its await to     *)
(* the except clause and from there to the end, without a further          *)
(* dispatch, and unless the failure reply itself raises the user sees the  *)
(* status 'converting' and the conversion error.                           *)
(***************************************************************************)
\* the place of a position of the job in convert_pdf_to_docx
WorkerRank(p) ==
    CASE p = "idle" -> 0 [] p = "submitted" -> 1 [] p = "tempfile" -> 2
      [] p = "converter" -> 3 [] p = "convert" -> 4 [] p = "close" -> 5
      [] p = "read" -> 6 [] p = "finally" -> 7 [] OTHER -> 8

C14_NoRetry ==
    /\ [][\A r \in Reqs :
            wpc'[r] # wpc[r] /\ pc'[r] # "retired" =>
                WorkerRank(wpc'[r]) > WorkerRank(wpc[r])]_vars
    /\ [][\A r \in Reqs :
            pdf_bytes'[r] # pdf_bytes[r] /\ pc'[r] # "retired" =>
                pc[r] = "download" /\ ~pdf_bytes[r]]_vars
    /\ [][\A r \in Reqs :
            wexc[r] /\ wpc'[r] = "raised" =>
                /\ wpc[r] = "finally"
                /\ ScratchOf(r)' = {} /\ unlinks'[r] = made'[r]]_vars
    /\ [][\A r \in Reqs :
            pc[r] = "await_executor" /\ wpc[r] = "raised" /\ pc'[r] # pc[r] =>
                pc'[r] = "except" /\ exc'[r] = "convert_pdf_to_docx"]_vars
    /\ [][\A r \in Reqs :
            exc[r] = "convert_pdf_to_docx" /\ pc'[r] # pc[r] =>
                /\ pc'[r] \in {"done", "error_handler", "retired"}
                /\ wpc'[r] \in {"raised", "idle"}]_vars
    /\ [](\A r \in Reqs :
            Done(r) /\ exc[r] = "convert_pdf_to_docx" /\ ~escaped[r] =>
                chat[r] = << TextMsg(1, MSG_CONVERTING), TextMsg(2, MSG_ERROR) >>)

\* the engine raised after it had begun to write the output: the request is
\* over with the conversion error, both scratch files made and removed
C14_Witness ==
    \E r \in Reqs :
        /\ Done(r) /\ exc[r] = "convert_pdf_to_docx" /\ ~escaped[r]
        /\ cv[r] = "open" /\ wpc[r] = "raised"
        /\ made[r] = 2 /\ unlinks[r] = 2 /\ ScratchOf(r) = {}

PathsOf(r) == {pdf_path[r], docx_path[r]} \ { <<>> }

PhaseOf(p) ==
    CASE p \in {"get_file", "check_format", "check_size",
                "reply_wrong_format", "reply_too_large", "catch_all"} -> 1
      [] p = "reply_processing" -> 2
      [] p = "download" -> 3
      [] p \in {"edit_converting", "run_in_executor", "await_executor"} -> 4
      [] p \in {"edit_complete", "reply_document", "delete"} -> 5
      [] p \in {"except", "error_handler", "done"} -> 6
      [] OTHER -> 0

C17_OrderedProgress ==
    /\ [][\A r \in Reqs :
            PhaseOf(pc'[r]) # PhaseOf(pc[r]) /\ pc'[r] # "retired" =>
                /\ \/ PhaseOf(pc'[r]) = PhaseOf(pc[r]) + 1
                   \/ PhaseOf(pc'[r]) = 6
                /\ PhaseOf(pc'[r]) = 6 /\ PhaseOf(pc[r]) < 5 =>
                      \/ pc'[r] = "except"
                      \/ pc[r] \in {"reply_wrong_format", "reply_too_large", "catch_all"}]_vars
    /\ [][\A r \in Reqs : Done(r) => pc'[r] \in {"done", "retired"}]_vars
    /\ [](\A r \in Reqs :
            /\ PhaseOf(pc[r]) \in 3..5 => processing_msg[r] # 0
            /\ PhaseOf(pc[r]) \in 4..5 => pdf_bytes[r]
            /\ PhaseOf(pc[r]) = 5 => docx_bytes[r])
    /\ [][\A r \in Reqs :
            pc[r] = "queued" => pc'[r] = "queued" \/ InFlight(r)']_vars
    /\ [][\A r \in Reqs : InFlight(r) => InFlight(r)' \/ Done(r)']_vars
    /\ <>[](\A r \in Reqs : pc[r] # "queued" /\ ~InFlight(r))

\* a request went through every state and ended in success, and the next one
\* is pending
C17_Witness ==
    \E r, q \in Reqs :
        /\ Done(r) /\ exc[r] = "none" /\ ~escaped[r]
        /\ pdf_bytes[r] /\ docx_bytes[r] /\ processing_msg[r] = 1
        /\ chat[r] = << DocMsg(2, MSG_CAPTION, output_name(doc[r].file_name)) >>
        /\ pc[q] = "queued"

(***************************************************************************)
(* C18.  The output scratch path is the sibling of the input scratch       *)
(* path: the same directory and base name, with only the trailing '.pdf'   *)
(* replaced by '.docx', for every temp directory.  The code violates it:   *)
(* replace() rewrites every '.pdf' of the path, so a temp directory whose  *)
(* name contains '.pdf' gives an output path in another directory.         *)
(***************************************************************************)
\* path with its last four characters, the extension, replaced by '.docx'
Sibling(path) == SubSeq(path, 1, Len(path) - 4) \o dot_docx

C18_OutputPathIsSibling ==
    \A r \in Reqs :
        pdf_path[r] # <<>> =>
            /\ docx_path[r] = Sibling(pdf_path[r])
            /\ SubSeq(docx_path[r], 1, Len(tempdir)) = tempdir

(***************************************************************************)
(* C19.  Every document upload is handled by exactly one handler: by       *)
(* handle_pdf when it matches the PDF document filter, by the catch-all    *)
(* otherwise.  For every upload one of the two is selected; the update     *)
(* that is taken up begins in handle_pdf if and only if its document has   *)
(* the MIME type of a PDF, and in the catch-all if not; a request is       *)
(* inside handle_pdf only with such a document and inside the catch-all    *)
(* only without; the catch-all does nothing but send the fixed rejection,  *)
(* and an upload it handled has had no step of handle_pdf.                 *)
(***************************************************************************)
\* the positions of handle_pdf
InHandlePdf(p) == (PhaseOf(p) \in 1..5 /\ p # "catch_all") \/ p = "except"

C19_ExactlyOneHandler ==
    /\ [](\A d \in Uploads : Selected(d) \in {"handle_pdf", "catch_all"})
    /\ [][\A r \in Reqs :
            pc[r] = "queued" /\ pc'[r] # "queued" =>
                pc'[r] = IF doc'[r].mime_type = "application/pdf"
                         THEN "get_file" ELSE "catch_all"]_vars
    /\ [](\A r \in Reqs :
            /\ InHandlePdf(pc[r]) => doc[r].mime_type = "application/pdf"
            /\ pc[r] = "catch_all" => doc[r].mime_type # "application/pdf")
    /\ [][\A r \in Reqs :
            pc[r] = "catch_all" /\ pc'[r] # pc[r] =>
                \/ pc'[r] = "done" /\ chat'[r] = << TextMsg(1, MSG_WRONG_FORMAT) >>
                \/ pc'[r] = "error_handler" /\ chat'[r] = chat[r]]_vars
    /\ [](\A r \in Reqs :
            (InFlight(r) \/ Done(r)) /\ doc[r].mime_type # "application/pdf" =>
                /\ ~file[r] /\ NothingAllocated(r)
                /\ Count(chat[r], IsDocument) + Count(chat[r], IsFailure) <= 1
                /\ Count(chat[r], IsStatus) = 0)

\* an upload named 'r.pdf' that does not have the MIME type of a PDF got the
\* fixed rejection from the catch-all, after an upload with that type had
\* gone to handle_pdf and left a scratch file
C19_Witness ==
    \E r, q \in Reqs :
        /\ Done(r) /\ doc[r].mime_type = MIME_OCTET /\ doc[r].file_name = name_r_pdf
        /\ chat[r] = << TextMsg(1, MSG_WRONG_FORMAT) >>
        /\ q < r /\ ScratchOf(q) # {}

(***************************************************************************)
(* C20.  Every Converter handle that convert_pdf_to_docx opens is closed   *)
(* before the function returns or raises, so the input file is not held    *)
(* open when the cleanup unlinks it.  The code violates it: cv.close() is  *)
(* a statement of the try block and is skipped when cv.convert raises.     *)
(***************************************************************************)
C20_ConverterClosed ==
    \A r \in Reqs :
        wpc[r] \in {"finally", "returned", "raised"} => cv[r] # "open"

=============================================================================
